---- MODULE Spec2Model ----
(***************************************************************************)
(* State machine of the Home component of src/app/page.tsx: the chat       *)
(* transcript, the per-message translation toggle and the document         *)
(* analysis flow, with the remote collaborators answering at any later     *)
(* moment.                                                                 *)
(*                                                                         *)
(* Texts are sequences of one-character strings, so that trimming and the  *)
(* JavaScript truthiness of a string (empty = falsy) are computed.         *)
(* A message is a JavaScript object: the field id stands for the object's  *)
(* identity, because arrays copied with [...messages] share their element  *)
(* objects and the swap branch of handleTranslateMessage mutates one of    *)
(* them in place.                                                          *)
(***************************************************************************)
EXTENDS Naturals, Sequences, FiniteSets

VARIABLES
    messages,          \* useState<Message[]>            (line 106)
    inputMessage,      \* useState('')                   (line 109)
    isLoading,         \* useState(false)                (line 110)
    error,             \* useState<string | null>(null)  (line 111)
    selectedLanguage,  \* useState('en')                 (line 113)
    documentAnalysis,  \* useState<string | null>(null)  (line 114)
    isAnalyzing,       \* useState(false)                (line 115)
    chats,             \* handleSendMessage calls suspended at the await of line 130
    translations,      \* handleTranslateMessage calls suspended at the await of line 152
    uploads,           \* handleFileUpload calls suspended at the await of line 175
    visions,           \* handleFileUpload calls suspended at the await of line 176
    requests,          \* requests issued so far (bounds the model)
    hist               \* observer: the toggleTranslation calls made in a row

vars == <<messages, inputMessage, isLoading, error, selectedLanguage,
          documentAnalysis, isAnalyzing, chats, translations, uploads, visions,
          requests, hist>>

----------------------------------------------------------------------------
(* Bounds of the model *)

\* requests issued to the collaborators in one run (chat completions,
\* translations and document analyses together)
MaxRequests == 3

----------------------------------------------------------------------------
(* Values *)

\* null / undefined, and a present value
None == {}
Some(x) == {x}

Whitespace == {" "}

\* the greeting of the initial transcript
Greeting == <<"H">>
\* what the user can have typed in the draft box: nothing, a blank, a text
\* with a leading blank
Drafts == {<<>>, <<" ">>, <<" ", "a">>}

ChatFallback == <<"F">>
VisionFallback == <<"G">>

ChatError == "An error occurred while getting the AI response. Please try again."
TranslateError == "Failed to translate the message. Please try again."
AnalysisError == "An error occurred while analyzing the document. Please try again."

\* the options of the language selector that are modelled: the source
\* language and one target (the code tells the options apart only by
\* comparing with "en"; bn, te and mr behave as hi)
Languages == {"en", "hi"}

\* answers of the chat endpoint: a rejected call, or a completion with a text
ChatResponses ==
    {[fails |-> TRUE, content |-> <<>>],
     [fails |-> FALSE, content |-> <<"r">>]}
\* answers of the vision endpoint: a rejected call, or a completion whose
\* content is absent/empty or a text
VisionResponses ==
    {[fails |-> TRUE, content |-> <<>>],
     [fails |-> FALSE, content |-> <<>>],
     [fails |-> FALSE, content |-> <<"d">>]}
\* answers of /api/upload
UploadResponses == {[ok |-> TRUE], [ok |-> FALSE]}
\* answers of the translation endpoint: fetch rejected, HTTP status not ok,
\* responseStatus other than 200, or a translated text (possibly empty)
TranslationResponses ==
    {[rejected |-> TRUE, ok |-> FALSE, responseStatus |-> 0, translatedText |-> <<>>],
     [rejected |-> FALSE, ok |-> FALSE, responseStatus |-> 0, translatedText |-> <<>>],
     [rejected |-> FALSE, ok |-> TRUE, responseStatus |-> 403, translatedText |-> <<>>],
     [rejected |-> FALSE, ok |-> TRUE, responseStatus |-> 200, translatedText |-> <<>>],
     [rejected |-> FALSE, ok |-> TRUE, responseStatus |-> 200, translatedText |-> <<"t">>]}

----------------------------------------------------------------------------
(* Pure helpers *)

RECURSIVE TrimStart(_)
TrimStart(s) ==
    IF s = <<>> THEN s
    ELSE IF Head(s) \in Whitespace THEN TrimStart(Tail(s)) ELSE s

RECURSIVE TrimEnd(_)
TrimEnd(s) ==
    IF s = <<>> THEN s
    ELSE IF s[Len(s)] \in Whitespace THEN TrimEnd(SubSeq(s, 1, Len(s) - 1)) ELSE s

\* String.prototype.trim
Trim(s) == TrimEnd(TrimStart(s))

\* JavaScript truthiness of an optional string: undefined and "" are falsy
Truthy(opt) == opt # None /\ opt # Some(<<>>)

\* a || b on strings
OrElse(a, b) == IF a = <<>> THEN b ELSE a

\* getGroqChatCompletion: throws, or returns content || fallback
getGroqChatCompletionThrows(resp) == resp.fails
getGroqChatCompletion(resp) == OrElse(resp.content, ChatFallback)

\* getGroqVisionAnalysis: throws, or returns content || fallback
getGroqVisionAnalysisThrows(resp) == resp.fails
getGroqVisionAnalysis(resp) == OrElse(resp.content, VisionFallback)

\* uploadImage: throws unless response.ok
uploadImageThrows(resp) == ~resp.ok

\* translateText: throws on a rejected fetch, on !response.ok and on
\* responseStatus !== 200; otherwise returns responseData.translatedText
translateTextThrows(resp) ==
    resp.rejected \/ ~resp.ok \/ resp.responseStatus # 200
translateText(resp) == resp.translatedText

RemoveAt(seq, k) == SubSeq(seq, 1, k - 1) \o SubSeq(seq, k + 1, Len(seq))

\* Object identity.  An object stays at one position of every array that
\* holds it (arrays are copied, appended to, or get one position replaced),
\* so identity is only ever compared between the same position of two
\* arrays.  The arrays alive are the transcript (number 0) and the snapshot
\* held by the k-th pending translation call (number k); the id of an object
\* is the smallest number of an array that holds it.
ArrayOf(m, t, a) == IF a = 0 THEN m ELSE t[a].messages

SameObject(m, t, a, b, p) ==
    /\ p \in DOMAIN ArrayOf(m, t, b)
    /\ ArrayOf(m, t, b)[p].id = ArrayOf(m, t, a)[p].id

Owner(m, t, a, p) ==
    CHOOSE b \in 0..a :
        /\ SameObject(m, t, a, b, p)
        /\ \A c \in 0..(b - 1) : ~SameObject(m, t, a, c, p)

Renumbered(m, t, a) ==
    [p \in DOMAIN ArrayOf(m, t, a) |->
        [ArrayOf(m, t, a)[p] EXCEPT !.id = Owner(m, t, a, p)]]

\* the transcript m and the pending calls t with the ids renumbered
NewMessages(m, t) == Renumbered(m, t, 0)
NewTranslations(m, t) ==
    [k \in DOMAIN t |-> [t[k] EXCEPT !.messages = Renumbered(m, t, k)]]

\* identity of a newly created object: no array holds it yet
FreshId == MaxRequests + 1

\* a swap that forgets to store the old content
SwappedContentOnly(m) ==
    [m EXCEPT !.content = CHOOSE x \in m.translatedContent : TRUE]

\* the destructuring swap of lines 147-148 applied to one object
Swapped(m) ==
    [m EXCEPT !.content = CHOOSE x \in m.translatedContent : TRUE,
              !.translatedContent = Some(m.content)]

\* an array after the object id at position index was mutated in place
AfterSwap(seq, index, id) ==
    [n \in DOMAIN seq |->
        IF n = index /\ seq[n].id = id THEN Swapped(seq[n]) ELSE seq[n]]

----------------------------------------------------------------------------
(* Initial state: lines 106-117 *)

\* hist: no toggleTranslation call observed in the last steps
NoMsg == [content |-> <<>>, translatedContent |-> None]
NoHist == [phase |-> "none", i |-> 0, j |-> 0, prei |-> NoMsg, prej |-> NoMsg,
           ret |-> <<>>]

Init ==
    /\ messages = <<[id |-> 0, role |-> "assistant", content |-> Greeting,
                     translatedContent |-> None]>>
    /\ inputMessage = <<>>
    /\ isLoading = FALSE
    /\ error = None
    /\ selectedLanguage = "en"
    /\ documentAnalysis = None
    /\ isAnalyzing = FALSE
    /\ chats = <<>>
    /\ translations = <<>>
    /\ uploads = 0
    /\ visions = 0
    /\ requests = 0
    /\ hist = NoHist

----------------------------------------------------------------------------
(* Draft box and language selector *)

\* onChange of the draft box (line 346), disabled while isLoading (line 347)
setInputMessage(text) ==
    /\ ~isLoading
    /\ inputMessage' = text
    /\ UNCHANGED <<messages, isLoading, error, selectedLanguage, documentAnalysis,
                   isAnalyzing, chats, translations, uploads, visions, requests>>

\* onValueChange of the language selector (line 353)
setSelectedLanguage(lang) ==
    /\ selectedLanguage' = lang
    /\ UNCHANGED <<messages, inputMessage, isLoading, error, documentAnalysis,
                   isAnalyzing, chats, translations, uploads, visions, requests>>

----------------------------------------------------------------------------
(* sendMessage: handleSendMessage, lines 119-139 *)

\* the guard of line 121
SendAccepted == Trim(inputMessage) # <<>> /\ ~isLoading

\* a user message that holds the trimmed draft
userMessageTrimmed(text) ==
    [id |-> FreshId, role |-> "user", content |-> Trim(text),
     translatedContent |-> None]

\* line 123
userMessage(text) ==
    [id |-> FreshId, role |-> "user", content |-> text, translatedContent |-> None]

\* line 131
botMessage(text) ==
    [id |-> FreshId, role |-> "assistant", content |-> text,
     translatedContent |-> None]

\* lines 120-130, up to the await
handleSendMessage ==
    /\ IF SendAccepted
       THEN /\ requests < MaxRequests
            /\ requests' = requests + 1
            /\ messages' = NewMessages(Append(messages, userMessage(inputMessage)),
                                       translations)
            /\ inputMessage' = <<>>
            /\ isLoading' = TRUE
            /\ error' = None
            /\ chats' = Append(chats, [lenBefore |-> Len(messages)])
       ELSE UNCHANGED <<messages, inputMessage, isLoading, error, chats, requests>>
    /\ UNCHANGED <<selectedLanguage, documentAnalysis, isAnalyzing, translations,
                   uploads, visions>>

\* lines 130-132 and 136-137: the completion arrived
ChatSuccess(k, resp) ==
    /\ k \in DOMAIN chats
    /\ ~getGroqChatCompletionThrows(resp)
    /\ messages' = NewMessages(Append(messages, botMessage(getGroqChatCompletion(resp))),
                               translations)
    /\ isLoading' = FALSE
    /\ chats' = RemoveAt(chats, k)
    /\ UNCHANGED <<inputMessage, error, selectedLanguage, documentAnalysis,
                   isAnalyzing, translations, uploads, visions, requests>>

\* the catch branch without the finally of lines 136-137
ChatFailureKeepsLoading(k, resp) ==
    /\ k \in DOMAIN chats
    /\ getGroqChatCompletionThrows(resp)
    /\ error' = Some(ChatError)
    /\ chats' = RemoveAt(chats, k)
    /\ UNCHANGED <<messages, inputMessage, isLoading, selectedLanguage,
                   documentAnalysis, isAnalyzing, translations, uploads, visions,
                   requests>>

\* lines 133-137: the call threw
ChatFailure(k, resp) ==
    /\ k \in DOMAIN chats
    /\ getGroqChatCompletionThrows(resp)
    /\ error' = Some(ChatError)
    /\ isLoading' = FALSE
    /\ chats' = RemoveAt(chats, k)
    /\ UNCHANGED <<messages, inputMessage, selectedLanguage, documentAnalysis,
                   isAnalyzing, translations, uploads, visions, requests>>

----------------------------------------------------------------------------
(* toggleTranslation: handleTranslateMessage, lines 141-165 *)

\* line 142 left out
ToggleNeverReturnsEarly == FALSE

\* line 142: nothing happens when the selected language is English
ToggleReturnsEarly == selectedLanguage = "en"

\* line 145: the message carries a (truthy) translatedContent
HasCachedTranslation(m) == Truthy(m.translatedContent)

\* lines 141-152, up to the await or to the end of the swap branch
handleTranslateMessage(index) ==
    /\ index \in DOMAIN messages
    /\ IF ToggleReturnsEarly
       THEN UNCHANGED <<messages, translations, requests>>
       ELSE IF HasCachedTranslation(messages[index])
       THEN /\ messages' = AfterSwap(messages, index, messages[index].id)
            /\ translations' =
                 [k \in DOMAIN translations |->
                    [translations[k] EXCEPT
                       !.messages = AfterSwap(@, index, messages[index].id)]]
            /\ UNCHANGED requests
       ELSE /\ requests < MaxRequests
            /\ requests' = requests + 1
            /\ translations' =
                 NewTranslations(messages,
                                 Append(translations,
                                        [index |-> index, messages |-> messages]))
            /\ UNCHANGED messages
    /\ UNCHANGED <<inputMessage, isLoading, error, selectedLanguage,
                   documentAnalysis, isAnalyzing, chats, uploads, visions>>

\* a replacement object that does not keep the original text
TranslatedMessageUncached(m, text) ==
    [id |-> FreshId, role |-> m.role, content |-> text,
     translatedContent |-> None]

\* lines 153-158: the object that replaces messageToTranslate
TranslatedMessage(m, text) ==
    [id |-> FreshId, role |-> m.role, content |-> text,
     translatedContent |-> Some(m.content)]

\* lines 152-159: the translation arrived
TranslateSuccess(k, resp) ==
    /\ k \in DOMAIN translations
    /\ ~translateTextThrows(resp)
    /\ LET call == translations[k]
           messageToTranslate == call.messages[call.index]
           updatedMessages ==
               [call.messages EXCEPT
                  ![call.index] =
                     TranslatedMessage(messageToTranslate, translateText(resp))]
       IN /\ messages' = NewMessages(updatedMessages, RemoveAt(translations, k))
          /\ translations' =
                NewTranslations(updatedMessages, RemoveAt(translations, k))
    /\ UNCHANGED <<inputMessage, isLoading, error, selectedLanguage,
                   documentAnalysis, isAnalyzing, chats, uploads, visions, requests>>

\* a catch branch that also stores the array the call started from
TranslateFailureRestoresSnapshot(k, resp) ==
    /\ k \in DOMAIN translations
    /\ translateTextThrows(resp)
    /\ error' = Some(TranslateError)
    /\ messages' = NewMessages(translations[k].messages, RemoveAt(translations, k))
    /\ translations' =
          NewTranslations(translations[k].messages, RemoveAt(translations, k))
    /\ UNCHANGED <<inputMessage, isLoading, selectedLanguage,
                   documentAnalysis, isAnalyzing, chats, uploads, visions, requests>>

\* lines 160-163: translateText threw
TranslateFailure(k, resp) ==
    /\ k \in DOMAIN translations
    /\ translateTextThrows(resp)
    /\ error' = Some(TranslateError)
    /\ messages' = NewMessages(messages, RemoveAt(translations, k))
    /\ translations' = NewTranslations(messages, RemoveAt(translations, k))
    /\ UNCHANGED <<inputMessage, isLoading, selectedLanguage,
                   documentAnalysis, isAnalyzing, chats, uploads, visions, requests>>

----------------------------------------------------------------------------
(* analyzeDocument: handleFileUpload, lines 167-184 *)

\* a file input that stays enabled during an analysis
FileInputAlwaysEnabled == TRUE

\* the file input is disabled while isAnalyzing (line 381)
FileInputEnabled == ~isAnalyzing

\* lines 168-175, up to the first await; hasFile is files?.[0] being there
handleFileUpload(hasFile) ==
    /\ FileInputEnabled
    /\ IF hasFile
       THEN /\ requests < MaxRequests
            /\ requests' = requests + 1
            /\ isAnalyzing' = TRUE
            /\ error' = None
            /\ uploads' = uploads + 1
       ELSE UNCHANGED <<isAnalyzing, error, uploads, requests>>
    /\ UNCHANGED <<messages, inputMessage, isLoading, selectedLanguage,
                   documentAnalysis, chats, translations, visions>>

\* line 175 returned a URL: the call goes on to the await of line 176
UploadSuccess(resp) ==
    /\ uploads > 0
    /\ ~uploadImageThrows(resp)
    /\ uploads' = uploads - 1
    /\ visions' = visions + 1
    /\ UNCHANGED <<messages, inputMessage, isLoading, error, selectedLanguage,
                   documentAnalysis, isAnalyzing, chats, translations, requests>>

\* line 175 threw: lines 178-182
UploadFailure(resp) ==
    /\ uploads > 0
    /\ uploadImageThrows(resp)
    /\ uploads' = uploads - 1
    /\ error' = Some(AnalysisError)
    /\ isAnalyzing' = FALSE
    /\ UNCHANGED <<messages, inputMessage, isLoading, selectedLanguage,
                   documentAnalysis, chats, translations, visions, requests>>

\* lines 176-177 and 181-182: the analysis arrived
VisionSuccess(resp) ==
    /\ visions > 0
    /\ ~getGroqVisionAnalysisThrows(resp)
    /\ visions' = visions - 1
    /\ documentAnalysis' = Some(getGroqVisionAnalysis(resp))
    /\ isAnalyzing' = FALSE
    /\ UNCHANGED <<messages, inputMessage, isLoading, error, selectedLanguage,
                   chats, translations, uploads, requests>>

\* line 176 threw: lines 178-182
VisionFailure(resp) ==
    /\ visions > 0
    /\ getGroqVisionAnalysisThrows(resp)
    /\ visions' = visions - 1
    /\ error' = Some(AnalysisError)
    /\ isAnalyzing' = FALSE
    /\ UNCHANGED <<messages, inputMessage, isLoading, selectedLanguage,
                   documentAnalysis, chats, translations, uploads, requests>>

----------------------------------------------------------------------------
(* Specifications *)

\* a collaborator answers a request that is in flight
ChatResolves ==
    /\ \E k \in DOMAIN chats, resp \in ChatResponses :
          ChatSuccess(k, resp) \/ ChatFailure(k, resp)
    /\ UNCHANGED hist
UploadResolves ==
    /\ \E resp \in UploadResponses : UploadSuccess(resp) \/ UploadFailure(resp)
    /\ UNCHANGED hist
VisionResolves ==
    /\ \E resp \in VisionResponses : VisionSuccess(resp) \/ VisionFailure(resp)
    /\ UNCHANGED hist

\* the steps of the component: the user's events and the answers of the
\* collaborators to the requests in flight
Next ==
    \/ \E text \in Drafts : setInputMessage(text) /\ UNCHANGED hist
    \/ \E lang \in Languages : setSelectedLanguage(lang) /\ UNCHANGED hist
    \/ handleSendMessage /\ UNCHANGED hist
    \/ \E k \in DOMAIN chats, resp \in ChatResponses :
          ChatSuccess(k, resp) /\ UNCHANGED hist
    \/ \E k \in DOMAIN chats, resp \in ChatResponses :
          ChatFailure(k, resp) /\ UNCHANGED hist
    \/ \E index \in DOMAIN messages :
          handleTranslateMessage(index) /\ UNCHANGED hist
    \/ \E k \in DOMAIN translations, resp \in TranslationResponses :
          TranslateSuccess(k, resp) /\ UNCHANGED hist
    \/ \E k \in DOMAIN translations, resp \in TranslationResponses :
          TranslateFailure(k, resp) /\ UNCHANGED hist
    \/ \E hasFile \in BOOLEAN : handleFileUpload(hasFile) /\ UNCHANGED hist
    \/ \E resp \in UploadResponses : UploadSuccess(resp) /\ UNCHANGED hist
    \/ \E resp \in UploadResponses : UploadFailure(resp) /\ UNCHANGED hist
    \/ \E resp \in VisionResponses : VisionSuccess(resp) /\ UNCHANGED hist
    \/ \E resp \in VisionResponses : VisionFailure(resp) /\ UNCHANGED hist

Spec == Init /\ [][Next]_vars

\* every request that was issued is answered: the collaborators are remote
\* services that answer with a result or an error
FairSpec ==
    /\ Spec
    /\ WF_vars(ChatResolves)
    /\ WF_vars(UploadResolves)
    /\ WF_vars(VisionResolves)

----------------------------------------------------------------------------
(* The same component, observed: hist follows the toggleTranslation calls   *)
(* that are made in a row, any other step in between resetting it.          *)
(*   noop    the last step was a call that returned at line 142             *)
(*   p1, d1  a first call on message i is pending / has completed           *)
(*   p2, d2  a second call in a row on message i is pending / has completed *)
(*   pp      calls on messages i and j # i are both pending                 *)
(*   pd, dd  one / both of these two calls have succeeded                   *)
(* prei and prej are the fields of messages i and j before the first call   *)
(* on each, ret the translation the service returned last.                  *)

\* content and translatedContent of a message object
Fields(m) == [content |-> m.content, translatedContent |-> m.translatedContent]

\* hist after toggleTranslation(index) returned at line 142
HistNoop(index) == [NoHist EXCEPT !.phase = "noop", !.i = index]

\* hist after toggleTranslation(index) ran the swap branch to its end:
\* the second call in a row on the same message, or a first call
HistSwap(index) ==
    IF hist.phase = "d1" /\ hist.i = index
    THEN [hist EXCEPT !.phase = "d2"]
    ELSE [NoHist EXCEPT !.phase = "d1", !.i = index,
                        !.prei = Fields(messages[index])]

\* hist after toggleTranslation(index) issued a translation request
HistFetch(index) ==
    IF hist.phase = "d1" /\ hist.i = index
    THEN [hist EXCEPT !.phase = "p2"]
    ELSE IF hist.phase = "p1" /\ hist.i # index
    THEN [hist EXCEPT !.phase = "pp", !.j = index,
                      !.prej = Fields(messages[index])]
    ELSE [NoHist EXCEPT !.phase = "p1", !.i = index,
                        !.prei = Fields(messages[index])]

\* hist after the translation request at position k resolved with text
HistSuccess(k, text) ==
    IF hist.phase = "p1" /\ k = Len(translations)
    THEN [hist EXCEPT !.phase = "d1", !.ret = text]
    ELSE IF hist.phase = "p2" /\ k = Len(translations)
    THEN [hist EXCEPT !.phase = "d2", !.ret = text]
    ELSE IF hist.phase = "pp" /\ k >= Len(translations) - 1
    THEN [hist EXCEPT !.phase = "pd"]
    ELSE IF hist.phase = "pd" /\ k = Len(translations)
    THEN [hist EXCEPT !.phase = "dd"]
    ELSE NoHist

\* hist after toggleTranslation(index)
HistToggle(index) ==
    IF ToggleReturnsEarly THEN HistNoop(index)
    ELSE IF HasCachedTranslation(messages[index]) THEN HistSwap(index)
    ELSE HistFetch(index)

ObservedNext ==
    \/ \E text \in Drafts : setInputMessage(text) /\ hist' = NoHist
    \/ \E lang \in Languages : setSelectedLanguage(lang) /\ hist' = NoHist
    \/ handleSendMessage /\ hist' = NoHist
    \/ \E k \in DOMAIN chats, resp \in ChatResponses :
          ChatSuccess(k, resp) /\ hist' = NoHist
    \/ \E k \in DOMAIN chats, resp \in ChatResponses :
          ChatFailure(k, resp) /\ hist' = NoHist
    \/ \E index \in DOMAIN messages :
          handleTranslateMessage(index) /\ hist' = HistToggle(index)
    \/ \E k \in DOMAIN translations, resp \in TranslationResponses :
          TranslateSuccess(k, resp) /\ hist' = HistSuccess(k, translateText(resp))
    \/ \E k \in DOMAIN translations, resp \in TranslationResponses :
          TranslateFailure(k, resp) /\ hist' = NoHist
    \/ \E hasFile \in BOOLEAN : handleFileUpload(hasFile) /\ hist' = NoHist
    \/ \E resp \in UploadResponses : UploadSuccess(resp) /\ hist' = NoHist
    \/ \E resp \in UploadResponses : UploadFailure(resp) /\ hist' = NoHist
    \/ \E resp \in VisionResponses : VisionSuccess(resp) /\ hist' = NoHist
    \/ \E resp \in VisionResponses : VisionFailure(resp) /\ hist' = NoHist

ObservedSpec == Init /\ [][ObservedNext]_vars

----------------------------------------------------------------------------
(* Properties *)

\* every variable of the component (hist only observes)
component == <<messages, inputMessage, isLoading, error, selectedLanguage,
               documentAnalysis, isAnalyzing, chats, translations, uploads,
               visions, requests>>

\* C1: when the chat completion of an accepted sendMessage succeeds, the
\* transcript is exactly 2 messages longer than before the call (the user
\* message, then the reply); when it fails, it is exactly 1 longer and error
\* is the chat-error string.
C1_SendGrowsTranscript ==
    [][\A k \in DOMAIN chats : \A resp \in ChatResponses :
          /\ ChatSuccess(k, resp) =>
                /\ Len(messages') = chats[k].lenBefore + 2
                /\ messages'[Len(messages') - 1].role = "user"
                /\ messages'[Len(messages')].role = "assistant"
          /\ ChatFailure(k, resp) =>
                /\ Len(messages') = chats[k].lenBefore + 1
                /\ messages'[Len(messages')].role = "user"
                /\ error' = Some(ChatError)]_vars

\* C2: the transcript is append-only: no step removes or reorders a message,
\* and a step changes at most one existing element, in its content and
\* translatedContent only.
C2_AppendOnly ==
    [][/\ Len(messages') >= Len(messages)
       /\ \A n \in DOMAIN messages : messages'[n].role = messages[n].role
       /\ Cardinality({n \in DOMAIN messages : messages'[n] # messages[n]}) <= 1]_vars

\* C3 as stated: after toggleTranslation(i) was called twice in a row, both
\* calls completing, content and translatedContent of message i are what
\* they were before the two calls.
C3_TwiceRestoresBoth ==
    hist.phase = "d2" => Fields(messages[hist.i]) = hist.prei

\* C3 as amended: after toggleTranslation(i) was called twice in a row on a
\* message that carried no translatedContent, both calls completing, content
\* is what it was before the two calls and translatedContent holds the
\* translation the service returned to the first call.
C3_TwiceRestoresContent ==
    (hist.phase = "d2" /\ hist.prei.translatedContent = None) =>
        /\ messages[hist.i].content = hist.prei.content
        /\ messages[hist.i].translatedContent = Some(hist.ret)

\* two calls in a row were made on a message that had no translation: the
\* first fetched it, the second swapped it back
C3_Witness ==
    /\ hist.phase = "d2"
    /\ hist.prei.translatedContent = None
    /\ hist.ret # <<>>

\* C4: a toggle of a message that carries a translatedContent is a pure swap
\* of content and translatedContent and issues no translation request.
C4_CachedToggleIsPureSwap ==
    [][\A index \in DOMAIN messages :
          (/\ handleTranslateMessage(index)
           /\ selectedLanguage # "en"
           /\ messages[index].translatedContent # None)
          => /\ translations' = translations
             /\ requests' = requests
             /\ messages'[index].translatedContent = Some(messages[index].content)
             /\ Some(messages'[index].content) = messages[index].translatedContent]_vars

\* C5: while the selected language is "en", toggleTranslation(i) issues no
\* request and changes no variable of the component, for every index i.
C5_EnglishToggleIsNoop ==
    [][\A index \in DOMAIN messages :
          (handleTranslateMessage(index) /\ selectedLanguage = "en")
          => UNCHANGED component]_vars

\* toggleTranslation was just called under "en" on a message that carries a
\* translation, while a translation request is in flight
C5_Witness ==
    /\ hist.phase = "noop"
    /\ selectedLanguage = "en"
    /\ messages[hist.i].translatedContent # None
    /\ translations # <<>>

\* what the state after a failed analysis is to be
AfterAnalysisFailure ==
    /\ isAnalyzing' = FALSE
    /\ error' = Some(AnalysisError)
    /\ documentAnalysis' = None

\* C6: whenever an analysis ends in failure (upload or vision step), the
\* state afterwards has analysis-loading false, error equal to the
\* analysis-error string and the analysis result unset, also when an
\* earlier analysis had succeeded.
C6_FailureLeavesNoResult ==
    [][/\ \A resp \in UploadResponses : UploadFailure(resp) => AfterAnalysisFailure
       /\ \A resp \in VisionResponses : VisionFailure(resp) => AfterAnalysisFailure]_vars

\* a flow is idle: its loading flag is false and none of its requests is in
\* flight, which is when the next sendMessage / analyzeDocument is accepted
ChatIdle == ~isLoading /\ chats = <<>>
AnalysisIdle == FileInputEnabled /\ uploads = 0 /\ visions = 0

\* C7: every chat request and every analysis request in flight, once its
\* collaborator answers (with a result or an error), leads to its flow being
\* idle again.
C7_FlowsReturnToIdle ==
    /\ (chats # <<>>) ~> ChatIdle
    /\ (uploads + visions > 0) ~> AnalysisIdle

\* a chat request and an analysis both failed and both flows are idle again
C7_Witness ==
    /\ requests >= 2
    /\ ChatIdle
    /\ AnalysisIdle
    /\ error = Some(AnalysisError)
    /\ messages[Len(messages)].role = "user"

\* C8: an accepted sendMessage (draft non-empty after trimming, no chat
\* request in flight) appends exactly one user message holding the draft
\* verbatim, clears the draft, sets chat-loading and clears the error, and
\* leaves the chat request unanswered: all in the step of the call.
C8_SendIsSynchronous ==
    [][(handleSendMessage /\ Trim(inputMessage) # <<>> /\ ~isLoading)
       => /\ Len(messages') = Len(messages) + 1
          /\ \A n \in DOMAIN messages : messages'[n] = messages[n]
          /\ Fields(messages'[Len(messages')]) =
                [content |-> inputMessage, translatedContent |-> None]
          /\ messages'[Len(messages')].role = "user"
          /\ inputMessage' = <<>>
          /\ isLoading' = TRUE
          /\ error' = None
          /\ Len(chats') = Len(chats) + 1]_vars

\* a draft with a leading blank was sent and its request is in flight
C8_Witness ==
    /\ isLoading
    /\ chats # <<>>
    /\ inputMessage = <<>>
    /\ error = None
    /\ messages[Len(messages)].role = "user"
    /\ messages[Len(messages)].content = <<" ", "a">>

\* C9: when the translation request of toggleTranslation(i) fails, error is
\* the translation-error string and the transcript is what it was when the
\* failure is handled.
C9_TranslateFailureKeepsTranscript ==
    [][\A k \in DOMAIN translations : \A resp \in TranslationResponses :
          TranslateFailure(k, resp)
          => /\ error' = Some(TranslateError)
             /\ messages' = messages]_vars

\* a translation failed after the transcript had grown past the greeting
C9_Witness ==
    /\ error = Some(TranslateError)
    /\ Len(messages) >= 2
    /\ translations = <<>>

\* C10: when toggleTranslation(i) and toggleTranslation(j), i # j, were both
\* started on untranslated messages before either request resolved and both
\* succeeded, both messages hold their original text in translatedContent.
C10_ConcurrentTogglesBothShown ==
    (/\ hist.phase = "dd"
     /\ hist.prei.translatedContent = None
     /\ hist.prej.translatedContent = None)
    => /\ messages[hist.i].translatedContent = Some(hist.prei.content)
       /\ messages[hist.j].translatedContent = Some(hist.prej.content)

\* C11: in every reachable state at most one chat request and at most one
\* document-analysis request (upload or vision step) is in flight, and a flow
\* with a request in flight has its loading flag set, which disables its
\* triggering control.
C11_OneRequestPerFlow ==
    /\ Len(chats) <= 1
    /\ uploads + visions <= 1
    /\ chats # <<>> => isLoading
    /\ uploads + visions > 0 => isAnalyzing

\* both flows have a request in flight at once, the analysis in its second
\* step, and no further request of either type could be issued
C11_Witness ==
    /\ Len(chats) = 1
    /\ visions = 1
    /\ isLoading
    /\ isAnalyzing

\* the texts messages are created with: the greeting, the drafts that are
\* accepted and the replies of the chat completion
OriginalTexts ==
    {Greeting}
    \cup {text \in Drafts : Trim(text) # <<>>}
    \cup {getGroqChatCompletion(resp) :
             resp \in {r \in ChatResponses : ~getGroqChatCompletionThrows(r)}}

\* the texts the translation service returns
TranslatedTexts ==
    {translateText(resp) :
        resp \in {r \in TranslationResponses : ~translateTextThrows(r)}}

\* m holds its original text alone, or its original text and one translation
HoldsOneTranslation(m) ==
    IF m.translatedContent = None
    THEN m.content \in OriginalTexts
    ELSE \E x \in m.translatedContent :
            \/ m.content \in OriginalTexts /\ x \in TranslatedTexts
            \/ m.content \in TranslatedTexts /\ x \in OriginalTexts

\* the original text among the two fields of m
OriginalText(m) ==
    IF m.content \in OriginalTexts \/ m.translatedContent = None
    THEN m.content
    ELSE CHOOSE x \in m.translatedContent : TRUE

\* a and b are states of one message: same role, same original text
SameMessage(a, b) == a.role = b.role /\ OriginalText(a) = OriginalText(b)

\* C12: in every reachable state a message without translatedContent shows
\* its original text, and a message with translatedContent holds its
\* original text and one translation in the two fields, in either order; a
\* step that updates messages keeps the role and the original text of each:
\* a resolving translation with respect to the messages its call started
\* from, any other step with respect to the transcript before it.
C12_OneCachedTranslation ==
    /\ [](\A n \in DOMAIN messages : HoldsOneTranslation(messages[n]))
    /\ [][IF \E k \in DOMAIN translations, resp \in TranslationResponses :
                TranslateSuccess(k, resp)
           THEN \A k \in DOMAIN translations : \A resp \in TranslationResponses :
                   TranslateSuccess(k, resp) =>
                      \A n \in DOMAIN translations[k].messages :
                         SameMessage(translations[k].messages[n], messages'[n])
           ELSE \A n \in DOMAIN messages :
                   /\ n \in DOMAIN messages'
                   /\ SameMessage(messages[n], messages'[n])]_vars

\* under a language other than "en", one message was translated and toggled
\* back to its original text while another shows its translation
C12_Witness ==
    /\ selectedLanguage # "en"
    /\ \E a, b \in DOMAIN messages :
          /\ a # b
          /\ messages[a].content \in OriginalTexts
          /\ messages[a].translatedContent # None
          /\ messages[b].content \in TranslatedTexts
          /\ messages[b].translatedContent # None

====
